---- MODULE Spec2Model ----
(***************************************************************************)
(* Cart aggregate, cart-to-order conversion and order status state machine *)
(* of the e-commerce backend (models/Cart.js, models/Order.js,             *)
(* controllers/cartController.js, controllers/orderController.js).         *)
(*                                                                         *)
(* The document store is modelled by the two collections carts and orders  *)
(* (sequences in insertion order; the index is the document _id).  A cart  *)
(* request is a process: it loads a copy of the cart document, mutates the *)
(* copy and saves it; every await on the store is a step of its own, so    *)
(* the steps of two requests can interleave.  Money is counted in mills    *)
(* (1/1000 of the currency unit) so that toFixed(2) is a real rounding.    *)
(***************************************************************************)
EXTENDS Integers, Sequences, FiniteSets, TLC

None == "none"

\* ------------------------------------------------------------------------
\* Bounds of the model
\* ------------------------------------------------------------------------
MaxRequests == 3
MaxConcRequests == 3
MaxOrderRequests == 3
MaxCarts == 2
MaxOrders == 2
MaxInflight == 2
MaxRaceRequests == 2
MaxThemeRequests == 3
MaxThemes == 3

\* ------------------------------------------------------------------------
\* Schema constants
\* ------------------------------------------------------------------------
MaxQuantity == 100
MaxCartItems == 50

\* ------------------------------------------------------------------------
\* Catalog (Product collection, read only here)
\* ------------------------------------------------------------------------
Products == {"p1", "p2"}

\* basePrice in mills; the schema setter keeps it at whole cents
BasePrice(p) == IF p = "p1" THEN 2500 ELSE 0

ProductName(p) == IF p = "p1" THEN "P1" ELSE "P2"

\* product.variants.id(variantId): the variant subdocument, NoVariant for null
NoVariant == [id |-> None, name |-> None, price |-> 0, sku |-> None]

ProductVariant(p, vid) ==
    IF p = "p1" /\ vid = "v1"
    THEN [id |-> "v1", name |-> "V1", price |-> 1004, sku |-> "ab"]
    ELSE NoVariant

\* ------------------------------------------------------------------------
\* Pure helpers
\* ------------------------------------------------------------------------
\* String.prototype.toLowerCase on the e-mail inputs of the model
Lower(e) == IF e = "A@B.COM" THEN "a@b.com" ELSE e

\* schema option uppercase: true on variant.sku
Upper(s) == IF s = "ab" THEN "AB" ELSE s

\* Number.prototype.toFixed(2) followed by parseFloat, on mills
Round2(x) == ((x + 5) \div 10) * 10

\* The variant object the controller builds for a cart item
RawVariant(v) ==
    << <<"_id", v.id>>, <<"name", v.name>>, <<"price", v.price>>, <<"sku", v.sku>> >>

IsSchemaPath(k) == k \in {"name", "sku", "color", "size", "price", "stock"}

RECURSIVE CastVariant(_)
\* What the cartItemSchema keeps of a variant object: only the declared
\* paths (strict mode; _id: false declares no path), sku upper-cased.
CastVariant(kv) ==
    IF kv = <<>> THEN <<>>
    ELSE LET h == Head(kv)
             rest == CastVariant(Tail(kv))
         IN IF ~IsSchemaPath(h[1]) THEN rest
            ELSE IF h[1] = "sku" THEN << <<"sku", Upper(h[2])>> >> \o rest
            ELSE <<h>> \o rest

\* JSON.stringify of a variant: the key/value pairs in order
Stringify(kv) == kv

RECURSIVE SumLines(_)
SumLines(items) ==
    IF items = <<>> THEN 0
    ELSE Head(items).price * Head(items).quantity + SumLines(Tail(items))

\* forEach guard of calculateTotals
HasInvalidLine(items) ==
    \E i \in 1..Len(items) : items[i].price = 0 \/ items[i].quantity = 0

\* ------------------------------------------------------------------------
\* State
\* ------------------------------------------------------------------------
VARIABLES
    carts,      \* Cart collection: sequence of cart documents, index = _id
    orders,     \* Order collection: sequence of order documents, index = _id
    reqs,       \* cart requests in flight, one record per slot
    resp,       \* the response of the request that completed last
    nReq,       \* number of requests received so far
    themes      \* Theme collection: sequence of theme documents, index = _id

vars == <<carts, orders, reqs, resp, nReq, themes>>

Slots == 1..MaxInflight

\* Cart.create(...): schema defaults of a new cart.  The field added is
\* bookkeeping of the model: the quantity the add-item requests answered
\* 200 were told is in the cart now (summed over their cart items).
NewCart(user, guestEmail) ==
    [user |-> user, isGuest |-> (guestEmail # None), guestEmail |-> guestEmail,
     items |-> <<>>, paymentMethod |-> None,
     subtotal |-> 0, shippingCost |-> 0, totalAmount |-> 0,
     isConverted |-> FALSE, v |-> 0, added |-> 0]

NoDoc == NewCart(None, None)

\* a request: the handler (kind), where it stands (pc), what it was sent
\* (user .. hasAddress) and what it holds (cid, doc: the loaded cart;
\* left: the cart items still to add)
IdleReq ==
    [pc |-> "idle", kind |-> None, user |-> None, guestEmail |-> None,
     product |-> None, variant |-> <<>>, quantity |-> 0, target |-> None,
     paymentMethod |-> None, hasAddress |-> FALSE,
     cid |-> 0, doc |-> NoDoc, left |-> <<>>]

\* a response: the handler that answered, its status code and the _id of the
\* cart or order document the handler had loaded (0 if it had loaded none)
NoResp == [kind |-> None, code |-> 0, id |-> 0]

Init ==
    /\ carts = <<>>
    /\ orders = <<>>
    /\ reqs = [r \in Slots |-> IdleReq]
    /\ resp = NoResp
    /\ nReq = 0
    /\ themes = <<>>

\* ------------------------------------------------------------------------
\* Store queries
\* ------------------------------------------------------------------------
\* findOne without a sort: the first matching document in natural order
FirstIndex(S) == IF S = {} THEN 0 ELSE CHOOSE i \in S : \A j \in S : i <= j

\* Cart.findOne({ user | guestEmail, isConverted: false }) of addItem,
\* clearCart and createOrderFromCart
FindActiveCart(C, user, guestEmail) ==
    FirstIndex({i \in 1..Len(C) :
        /\ ~C[i].isConverted
        /\ IF user # None THEN C[i].user = user
           ELSE C[i].guestEmail = Lower(guestEmail)})

\* Cart.findOne({ $or: [{user: req.user?._id}, {guestEmail: ...}],
\* isConverted: false }) of getCart, updateItemQuantity and removeItem.
\* An undefined operand is sent as null and matches a missing field.
FindCartByOr(C, user, guestEmail) ==
    FirstIndex({i \in 1..Len(C) :
        /\ ~C[i].isConverted
        /\ \/ C[i].user = user
           \/ C[i].guestEmail = Lower(guestEmail)})

\* ------------------------------------------------------------------------
\* Cart methods (on the in-memory document)
\* ------------------------------------------------------------------------
\* calculateTotals without the toFixed(2) on the sum
SubtotalUnrounded(items) == SumLines(items)

\* calculateTotals: the totals it assigns
Subtotal(items) == Round2(SumLines(items))

WithTotals(doc) ==
    [doc EXCEPT !.subtotal = Subtotal(doc.items),
                !.totalAmount = Round2(Subtotal(doc.items) + doc.shippingCost)]

\* addItem: index of the line the new item is merged into, 0 if none
ExistingItemIndex(items, itemData) ==
    FirstIndex({i \in 1..Len(items) :
        /\ items[i].product = itemData.product
        /\ Stringify(items[i].variant) = Stringify(itemData.variant)})

\* the subdocument mongoose builds from the pushed object
CastItem(itemData) ==
    [product |-> itemData.product, name |-> itemData.name,
     quantity |-> itemData.quantity, price |-> itemData.price,
     variant |-> CastVariant(itemData.variant)]

\* removeItem / updateItemQuantity: the line an itemId resolves to, 0 if none.
\* Cart lines carry no _id and the stored variant has no _id, so only the
\* product reference can match.
HasKey(kv, k) == \E i \in 1..Len(kv) : kv[i][1] = k

KeyValue(kv, k) == kv[CHOOSE i \in 1..Len(kv) : kv[i][1] = k][2]

FindLine(items, targetId) ==
    FirstIndex({i \in 1..Len(items) :
        \/ items[i].product = targetId
        \/ (HasKey(items[i].variant, "_id")
            /\ KeyValue(items[i].variant, "_id") = targetId)})

RemoveAt(s, i) == SubSeq(s, 1, i - 1) \o SubSeq(s, i + 1, Len(s))

\* schema validation run by save() on the cart document
CartValid(doc) ==
    /\ Len(doc.items) <= MaxCartItems
    /\ \A i \in 1..Len(doc.items) :
          /\ doc.items[i].quantity >= 1
          /\ doc.items[i].quantity <= MaxQuantity
          /\ doc.items[i].price >= 0

\* ------------------------------------------------------------------------
\* document.save(): mongoose sends only the modified paths.  A pushed line
\* is a $push (increments __v, no version check); an assignment to a field
\* of line i is a positional $set guarded by __v; a spliced array is a $set
\* of the whole array guarded by __v and incrementing it.
\* ------------------------------------------------------------------------
NullLine == [product |-> None, name |-> None, quantity |-> 0, price |-> 0,
             variant |-> <<>>]

RECURSIVE PadTo(_, _)
PadTo(items, n) == IF Len(items) >= n THEN items ELSE PadTo(Append(items, NullLine), n)

\* save() as a compare-and-swap on the document as it was loaded
VersionOkCompareAndSwap(stored, base, op) == stored = base

VersionOk(stored, base, op) == op \in {"none", "push"} \/ stored.v = base.v

StoredItemsAfter(stored, new, op, i) ==
    CASE op = "push"   -> Append(stored.items, new.items[Len(new.items)])
      [] op = "setpos" -> [PadTo(stored.items, i) EXCEPT ![i].quantity = new.items[i].quantity]
      [] op = "setall" -> new.items
      [] OTHER         -> stored.items

StoredAfter(stored, base, new, op, i) ==
    [stored EXCEPT
        !.items = StoredItemsAfter(stored, new, op, i),
        !.v = IF op \in {"push", "setall"} THEN stored.v + 1 ELSE stored.v,
        !.subtotal = IF new.subtotal # base.subtotal THEN new.subtotal ELSE stored.subtotal,
        !.totalAmount = IF new.totalAmount # base.totalAmount THEN new.totalAmount
                        ELSE stored.totalAmount,
        !.isConverted = IF new.isConverted # base.isConverted THEN new.isConverted
                        ELSE stored.isConverted]

\* the in-memory document after a successful save
DocAfter(new, op) == [new EXCEPT !.v = IF op \in {"push", "setall"} THEN new.v + 1 ELSE new.v]

\* ------------------------------------------------------------------------
\* Orders
\* ------------------------------------------------------------------------
PaymentMethodEnum == {"cash", "paypal", "stripe", "card"}

StatusEnum == {"processing", "confirmed", "shipped", "delivered", "cancelled"}

\* Order.create(orderData): schema defaults filled in.  The timestamps
\* paidAt, deliveredAt, cancelledAt and invoiceURL are kept as "is set".  The field
\* cart is bookkeeping of the model: the cart the order was converted from
\* (0 for an order created directly).
NewOrder(data) ==
    [user |-> data.user, isGuest |-> data.isGuest, guestEmail |-> data.guestEmail,
     orderItems |-> data.orderItems, paymentMethod |-> data.paymentMethod,
     paymentStatus |-> "pending", status |-> data.status,
     totalAmount |-> data.totalAmount,
     isPaid |-> data.isPaid, paidAt |-> data.paidAt,
     isDelivered |-> FALSE, deliveredAt |-> FALSE,
     isCancelled |-> FALSE, cancelledAt |-> FALSE,
     invoiceURL |-> FALSE,
     cart |-> data.cart]

\* Order.create without the enum validator of status
OrderValidNoStatusEnum(data) ==
    /\ data.paymentMethod \in PaymentMethodEnum
    /\ Len(data.orderItems) > 0
    /\ \A i \in 1..Len(data.orderItems) : data.orderItems[i].quantity >= 1
    /\ data.totalAmount >= 0
    /\ data.isGuest => data.guestEmail # None

\* validation run by Order.create
OrderValid(data) ==
    /\ data.paymentMethod \in PaymentMethodEnum
    /\ data.status \in StatusEnum
    /\ Len(data.orderItems) > 0
    /\ \A i \in 1..Len(data.orderItems) : data.orderItems[i].quantity >= 1
    /\ data.totalAmount >= 0
    /\ data.isGuest => data.guestEmail # None

\* payment methods a request may name (None: the field is missing)
PaymentInputs == {None, "cash", "card"}


\* ------------------------------------------------------------------------
\* Cart requests.  A handler runs as a sequence of steps, one per await on
\* the store.  Each step is a function of the request and the collections:
\* it returns the request as it continues, the collections as it leaves
\* them and the status code of the response (0 while the handler runs on).
\* ------------------------------------------------------------------------
Continue(req, C, O) ==
    [req |-> req, carts |-> C, orders |-> O, code |-> 0, id |-> req.cid]

Answer(req, C, O, code) ==
    [req |-> IdleReq, carts |-> C, orders |-> O, code |-> code, id |-> req.cid]

\* `${product.name} - ${variant.name}`
VariantItemName(p, v) == IF p = "p1" /\ v.name = "V1" THEN "P1 - V1" ELSE "P2 - V1"

\* cartController.addItem: the cart items built from the request
RECURSIVE CartItemsOf(_, _, _)
CartItemsOf(p, vids, q) ==
    IF vids = <<>> THEN <<>>
    ELSE LET v == ProductVariant(p, Head(vids)) IN
         << [product |-> p, name |-> VariantItemName(p, v), quantity |-> q,
             price |-> v.price, variant |-> RawVariant(v)] >>
         \o CartItemsOf(p, Tail(vids), q)

BuildCartItems(p, vids, q) ==
    IF vids # <<>> THEN CartItemsOf(p, vids, q)
    ELSE << [product |-> p, name |-> ProductName(p), quantity |-> q,
             price |-> BasePrice(p), variant |-> <<>>] >>

\* cartController.addItem up to the cart lookup
AddStart(req, C, O) ==
    LET cid == FindActiveCart(C, req.user, req.guestEmail)
        items == BuildCartItems(req.product, req.variant, req.quantity)
    IN
    IF req.product \notin Products THEN Answer(req, C, O, 404)
    ELSE IF \E k \in 1..Len(req.variant) :
               ProductVariant(req.product, req.variant[k]) = NoVariant
         THEN Answer(req, C, O, 404)
    ELSE IF req.user = None /\ req.guestEmail = None THEN Answer(req, C, O, 400)
    ELSE IF cid = 0 THEN Continue([req EXCEPT !.pc = "create", !.left = items], C, O)
    ELSE Continue([req EXCEPT !.pc = "add", !.cid = cid, !.doc = C[cid],
                              !.left = items], C, O)

\* cartController.addItem: Cart.create for an owner without an active cart
AddCreate(req, C, O) ==
    LET doc == NewCart(req.user,
                       IF req.user # None THEN None ELSE Lower(req.guestEmail))
    IN Continue([req EXCEPT !.pc = "add", !.cid = Len(C) + 1, !.doc = doc],
                Append(C, doc), O)

\* Cart.methods.addItem on the in-memory document: <<document, array op, index>>
addItem(doc, itemData) ==
    LET i == ExistingItemIndex(doc.items, itemData) IN
    IF i > 0
    THEN <<[doc EXCEPT !.items[i].quantity = @ + itemData.quantity], "setpos", i>>
    ELSE <<[doc EXCEPT !.items = Append(@, CastItem(itemData))], "push", 0>>

\* one iteration of `for (const item of cartItems) await cart.addItem(item)`
AddItemStep(req, C, O) ==
    LET res == addItem(req.doc, Head(req.left))
        new == WithTotals(res[1])
        C2 == [C EXCEPT ![req.cid] = StoredAfter(@, req.doc, new, res[2], res[3])]
        n == IF req.variant = <<>> THEN 1 ELSE Len(req.variant)
        C3 == [C2 EXCEPT ![req.cid].added = @ + n * req.quantity]
    IN
    IF req.doc.isConverted THEN Answer(req, C, O, 400)
    ELSE IF HasInvalidLine(res[1].items) THEN Answer(req, C, O, 500)
    ELSE IF ~CartValid(new) \/ ~VersionOk(C[req.cid], req.doc, res[2])
         THEN Answer(req, C, O, 500)
    ELSE IF Len(req.left) = 1 THEN Answer(req, C3, O, 200)
    ELSE Continue([req EXCEPT !.doc = DocAfter(new, res[2]), !.left = Tail(@)], C2, O)

\* cartController.getCart
GetCartStep(req, C, O) ==
    LET cid == FindCartByOr(C, req.user, req.guestEmail) IN
    IF cid = 0 THEN Answer(req, C, O, 404)
    ELSE Answer([req EXCEPT !.cid = cid], C, O, 200)

\* cartController.updateItemQuantity up to the cart lookup
UpdateStart(req, C, O) ==
    LET cid == FindCartByOr(C, req.user, req.guestEmail) IN
    IF cid = 0 THEN Answer(req, C, O, 404)
    ELSE Continue([req EXCEPT !.pc = "update", !.cid = cid, !.doc = C[cid]], C, O)

\* Cart.methods.updateItemQuantity and the rest of the handler
UpdateItemStep(req, C, O) ==
    LET i == FindLine(req.doc.items, req.target)
        set == [req.doc EXCEPT !.items[i].quantity = req.quantity]
        op == IF req.doc.items[i].quantity = req.quantity THEN "none" ELSE "setpos"
        new == WithTotals(set)
    IN
    IF req.doc.isConverted THEN Answer(req, C, O, 400)
    ELSE IF i = 0 THEN Answer(req, C, O, 404)
    ELSE IF HasInvalidLine(set.items) THEN Answer(req, C, O, 500)
    ELSE IF ~CartValid(new) \/ ~VersionOk(C[req.cid], req.doc, op) THEN Answer(req, C, O, 500)
    ELSE Answer(req, [C EXCEPT ![req.cid] = StoredAfter(@, req.doc, new, op, i)], O, 200)

\* cartController.removeItem up to the cart lookup
RemoveStart(req, C, O) ==
    LET cid == FindCartByOr(C, req.user, req.guestEmail) IN
    IF cid = 0 THEN Answer(req, C, O, 404)
    ELSE Continue([req EXCEPT !.pc = "remove", !.cid = cid, !.doc = C[cid]], C, O)

\* Cart.methods.removeItem and the rest of the handler.  `next` is not
\* defined in the method, so its not-found branch throws a ReferenceError.
RemoveItemStep(req, C, O) ==
    LET i == FindLine(req.doc.items, req.target)
        cut == [req.doc EXCEPT !.items = RemoveAt(@, i)]
        new == WithTotals(cut)
    IN
    IF req.doc.isConverted THEN Answer(req, C, O, 400)
    ELSE IF i = 0 THEN Answer(req, C, O, 500)
    ELSE IF HasInvalidLine(cut.items) THEN Answer(req, C, O, 500)
    ELSE IF ~CartValid(new) \/ ~VersionOk(C[req.cid], req.doc, "setall")
         THEN Answer(req, C, O, 500)
    ELSE Answer(req, [C EXCEPT ![req.cid] = StoredAfter(@, req.doc, new, "setall", 0)], O, 204)

\* cartController.clearCart: findOneAndUpdate is one atomic write; the
\* calculateTotals and save that follow find nothing modified.
ClearStep(req, C, O) ==
    LET cid == FindActiveCart(C, req.user, req.guestEmail) IN
    IF req.user = None /\ req.guestEmail = None THEN Answer(req, C, O, 400)
    ELSE IF cid = 0 THEN Answer(req, C, O, 404)
    ELSE Answer([req EXCEPT !.cid = cid],
                [C EXCEPT ![cid] = [@ EXCEPT !.items = <<>>, !.subtotal = 0,
                                             !.totalAmount = 0, !.shippingCost = 0]],
                O, 200)

\* orderController.createOrderFromCart up to the cart lookup
ConvertStart(req, C, O) ==
    LET cid == FindActiveCart(C, req.user, req.guestEmail) IN
    IF ~req.hasAddress \/ req.paymentMethod = None THEN Answer(req, C, O, 400)
    ELSE IF req.user = None /\ req.guestEmail = None THEN Answer(req, C, O, 400)
    ELSE IF cid = 0 THEN Answer(req, C, O, 404)
    ELSE Continue([req EXCEPT !.pc = "convert", !.cid = cid, !.doc = C[cid]], C, O)

\* Cart.methods.canConvertToOrder: TRUE if the guard lets the cart through
canConvertToOrder(doc) ==
    /\ ~doc.isConverted
    /\ Len(doc.items) # 0
    /\ doc.paymentMethod # None
    /\ \A i \in 1..Len(doc.items) :
          /\ doc.items[i].product # None
          /\ doc.items[i].quantity # 0
          /\ doc.items[i].price # 0

\* convertToOrder without its guard on an empty cart
ConvertErrorNoEmptyGuard(doc, hasAddress, paymentMethod) ==
    IF doc.isConverted THEN 400
    ELSE IF ~hasAddress THEN 400
    ELSE IF paymentMethod = None THEN 400
    ELSE 0

\* Cart.methods.convertToOrder: the guards before anything is written;
\* the status code of the error thrown, 0 if none
ConvertError(doc, hasAddress, paymentMethod) ==
    IF doc.isConverted THEN 400
    ELSE IF Len(doc.items) = 0 THEN 400
    ELSE IF ~hasAddress THEN 400
    ELSE IF paymentMethod = None THEN 400
    ELSE 0

\* convertToOrder copying only the first cart line
OrderItemsOfFirstLine(items) ==
    IF items = <<>> THEN <<>>
    ELSE << [product |-> Head(items).product, name |-> Head(items).name,
             quantity |-> Head(items).quantity, price |-> Head(items).price] >>

\* Cart.methods.convertToOrder: orderItems
RECURSIVE OrderItemsOf(_)
OrderItemsOf(items) ==
    IF items = <<>> THEN <<>>
    ELSE << [product |-> Head(items).product, name |-> Head(items).name,
             quantity |-> Head(items).quantity, price |-> Head(items).price] >>
         \o OrderItemsOf(Tail(items))

\* convertToOrder without its branch for the cart of a guest
OrderDataOfNoGuestBranch(doc, paymentMethod, cid) ==
    [user |-> doc.user,
     isGuest |-> FALSE,
     guestEmail |-> None,
     orderItems |-> OrderItemsOf(doc.items),
     paymentMethod |-> paymentMethod,
     totalAmount |-> doc.totalAmount,
     isPaid |-> (paymentMethod # "cash"),
     paidAt |-> (paymentMethod # "cash"),
     status |-> IF paymentMethod = "cash" THEN "pending" ELSE "processing",
     cart |-> cid]

\* Cart.methods.convertToOrder: orderData
OrderDataOf(doc, paymentMethod, cid) ==
    [user |-> doc.user,
     isGuest |-> (doc.user = None /\ doc.isGuest),
     guestEmail |-> IF doc.user = None /\ doc.isGuest THEN doc.guestEmail ELSE None,
     orderItems |-> OrderItemsOf(doc.items),
     paymentMethod |-> paymentMethod,
     totalAmount |-> doc.totalAmount,
     isPaid |-> (paymentMethod # "cash"),
     paidAt |-> (paymentMethod # "cash"),
     status |-> IF paymentMethod = "cash" THEN "pending" ELSE "processing",
     cart |-> cid]

\* Cart.methods.convertToOrder on the loaded document, then the response.
\* Its awaits (calculateTotals, Order.create, save) run here without another
\* request in between: the interleavings kept are those at the cart lookup.
ConvertToOrderStep(req, C, O) ==
    LET err == ConvertError(req.doc, req.hasAddress, req.paymentMethod)
        recalc == req.doc.totalAmount = 0 \/ req.doc.subtotal = 0
        doc1 == IF recalc THEN WithTotals(req.doc) ELSE req.doc
        afterTotals == StoredAfter(C[req.cid], req.doc, doc1, "none", 0)
        data == OrderDataOf(doc1, req.paymentMethod, req.cid)
        doc2 == [doc1 EXCEPT !.isConverted = TRUE]
    IN
    IF err # 0 THEN Answer(req, C, O, err)
    ELSE IF recalc /\ HasInvalidLine(req.doc.items) THEN Answer(req, C, O, 500)
    ELSE IF ~OrderValid(data)
         THEN Answer(req, [C EXCEPT ![req.cid] = afterTotals], O, 500)
    ELSE Answer(req, [C EXCEPT ![req.cid] = StoredAfter(afterTotals, doc1, doc2, "none", 0)],
                Append(O, NewOrder(data)), 201)

\* the step a request takes next
StepOf(req, C, O) ==
    CASE req.pc = "addStart"     -> AddStart(req, C, O)
      [] req.pc = "create"       -> AddCreate(req, C, O)
      [] req.pc = "add"          -> AddItemStep(req, C, O)
      [] req.pc = "updateStart"  -> UpdateStart(req, C, O)
      [] req.pc = "update"       -> UpdateItemStep(req, C, O)
      [] req.pc = "removeStart"  -> RemoveStart(req, C, O)
      [] req.pc = "remove"       -> RemoveItemStep(req, C, O)
      [] req.pc = "clearStart"   -> ClearStep(req, C, O)
      [] req.pc = "convertStart" -> ConvertStart(req, C, O)
      [] req.pc = "convert"      -> ConvertToOrderStep(req, C, O)
      [] req.pc = "getStart"     -> GetCartStep(req, C, O)

\* a handler run from its first to its last step without interruption
RECURSIVE RunHandler(_, _, _)
RunHandler(req, C, O) ==
    LET s == StepOf(req, C, O) IN
    IF s.code # 0 THEN s ELSE RunHandler(s.req, s.carts, s.orders)

\* ------------------------------------------------------------------------
\* What a request may carry
\* ------------------------------------------------------------------------
\* who sends a cart request: req.user and the guestEmail of body or query
Identities ==
    { [user |-> "u1", guestEmail |-> None],
      [user |-> None, guestEmail |-> "A@B.COM"],
      [user |-> None, guestEmail |-> None] }

\* getCart, updateItemQuantity and removeItem read req.user and the
\* guestEmail of the request together: an authenticated request may carry
\* a guestEmail as well
MixedIdentities ==
    Identities \cup { [user |-> "u1", guestEmail |-> "A@B.COM"] }

\* req.body.product and req.body.variant of an add-item request
AddInputs ==
    { [product |-> "p1", variant |-> <<>>],
      [product |-> "p1", variant |-> <<"v1">>],
      [product |-> "p1", variant |-> <<"v1", "v1">>],
      [product |-> "p1", variant |-> <<"vx">>],
      [product |-> "p2", variant |-> <<>>],
      [product |-> "px", variant |-> <<>>] }

Quantities == {1, 60}

ItemIds == {"p1", "p2", "v1"}

AddRequests ==
    { [IdleReq EXCEPT !.kind = "add", !.pc = "addStart", !.user = who.user,
                      !.guestEmail = who.guestEmail, !.product = inp.product,
                      !.variant = inp.variant, !.quantity = q] :
        who \in Identities, inp \in AddInputs, q \in Quantities }

UpdateRequests ==
    { [IdleReq EXCEPT !.kind = "update", !.pc = "updateStart", !.user = who.user,
                      !.guestEmail = who.guestEmail, !.target = t, !.quantity = q] :
        who \in MixedIdentities, t \in ItemIds, q \in Quantities }

RemoveRequests ==
    { [IdleReq EXCEPT !.kind = "remove", !.pc = "removeStart", !.user = who.user,
                      !.guestEmail = who.guestEmail, !.target = t] :
        who \in MixedIdentities, t \in ItemIds }

GetCartRequests ==
    { [IdleReq EXCEPT !.kind = "get", !.pc = "getStart", !.user = who.user,
                      !.guestEmail = who.guestEmail] :
        who \in MixedIdentities }

ClearRequests ==
    { [IdleReq EXCEPT !.kind = "clear", !.pc = "clearStart", !.user = who.user,
                      !.guestEmail = who.guestEmail] :
        who \in Identities }

ConvertRequests ==
    { [IdleReq EXCEPT !.kind = "convert", !.pc = "convertStart", !.user = who.user,
                      !.guestEmail = who.guestEmail, !.paymentMethod = pm,
                      !.hasAddress = addr] :
        who \in Identities, pm \in PaymentInputs, addr \in BOOLEAN }

\* ------------------------------------------------------------------------
\* Requests handled one after the other: each handler is one action
\* ------------------------------------------------------------------------
Handle(req) ==
    /\ nReq < MaxRequests
    /\ \E s \in {RunHandler(req, carts, orders)} :
        /\ Len(s.carts) <= MaxCarts
        /\ Len(s.orders) <= MaxOrders
        /\ carts' = s.carts
        /\ orders' = s.orders
        /\ resp' = [kind |-> req.kind, code |-> s.code, id |-> s.id]
        /\ nReq' = nReq + 1
        /\ UNCHANGED <<reqs, themes>>

AddItem == \E req \in AddRequests : Handle(req)

UpdateItemQuantity == \E req \in UpdateRequests : Handle(req)

RemoveItem == \E req \in RemoveRequests : Handle(req)

ClearCart == \E req \in ClearRequests : Handle(req)

GetCart == \E req \in GetCartRequests : Handle(req)

CreateOrderFromCart == \E req \in ConvertRequests : Handle(req)

\* ------------------------------------------------------------------------
\* Concurrent cart requests: each step of a handler is one action
\* ------------------------------------------------------------------------
Take(r, req) ==
    \E s \in {StepOf(req, carts, orders)} :
        /\ Len(s.carts) <= MaxCarts
        /\ Len(s.orders) <= MaxOrders
        /\ carts' = s.carts
        /\ orders' = s.orders
        /\ UNCHANGED themes
        /\ IF s.code # 0
           THEN /\ resp' = [kind |-> req.kind, code |-> s.code, id |-> s.id]
                /\ reqs' = [reqs EXCEPT ![r] = IdleReq]
           ELSE /\ reqs' = [reqs EXCEPT ![r] = s.req]
                /\ UNCHANGED resp

Receive(r, requests) ==
    /\ reqs[r].pc = "idle"
    /\ nReq < MaxConcRequests
    /\ nReq' = nReq + 1
    /\ \E req \in requests : Take(r, req)

Resume(r, pc) ==
    /\ reqs[r].pc = pc
    /\ Take(r, reqs[r])
    /\ UNCHANGED nReq

StartAdd(r) == Receive(r, AddRequests)

CreateCart(r) == Resume(r, "create")

AddStep(r) == Resume(r, "add")

StartUpdate(r) == Receive(r, UpdateRequests)

UpdateStep(r) == Resume(r, "update")

StartRemove(r) == Receive(r, RemoveRequests)

RemoveStep(r) == Resume(r, "remove")

ClearCartConc(r) == Receive(r, ClearRequests)

StartConvert(r) == Receive(r, ConvertRequests)

ConvertStep(r) == Resume(r, "convert")

\* ------------------------------------------------------------------------
\* Order handlers (each is one read-modify-write on one order document)
\* ------------------------------------------------------------------------
\* req.user (with its role) and the guestEmail / payerEmail of the request
Actors ==
    { [user |-> "admin", role |-> "admin", guestEmail |-> None],
      [user |-> "u1", role |-> "user", guestEmail |-> None],
      [user |-> None, role |-> None, guestEmail |-> "A@B.COM"],
      [user |-> None, role |-> None, guestEmail |-> "a@b.com"],
      [user |-> None, role |-> None, guestEmail |-> None] }

\* String.prototype.toLowerCase on the status inputs of the model
LowerStatus(st) == IF st = "DELIVERED" THEN "delivered" ELSE st

StatusInputs == StatusEnum \cup {"DELIVERED", "refunded", None}

\* an order id of the request: an existing order or one that does not exist
OrderIds == 1..(Len(orders) + 1)

OrderResponds(kind, code, id) ==
    /\ resp' = [kind |-> kind, code |-> code, id |-> id]
    /\ nReq' = nReq + 1
    /\ UNCHANGED <<carts, reqs, themes>>

\* orderController.createOrder
createOrder ==
    /\ nReq < MaxOrderRequests
    /\ \E who \in Actors, payerEmail \in {None, "a@b.com"},
          p \in {"p1", "px"}, pm \in PaymentInputs :
        LET data == [user |-> who.user,
                     isGuest |-> (who.user = None),
                     guestEmail |-> IF who.user # None THEN None
                                    ELSE IF who.guestEmail # None THEN who.guestEmail
                                    ELSE payerEmail,
                     orderItems |-> << [product |-> p, name |-> ProductName(p),
                                        quantity |-> 1, price |-> BasePrice(p)] >>,
                     paymentMethod |-> pm,
                     totalAmount |-> BasePrice(p) * 1,
                     isPaid |-> FALSE, paidAt |-> FALSE,
                     status |-> "processing", cart |-> 0]
        IN
        IF p \notin Products THEN OrderResponds("create", 404, 0) /\ UNCHANGED orders
        ELSE IF pm = None THEN OrderResponds("create", 400, 0) /\ UNCHANGED orders
        ELSE IF who.user = None /\ who.guestEmail = None /\ payerEmail = None
             THEN OrderResponds("create", 400, 0) /\ UNCHANGED orders
        ELSE IF ~OrderValid(data) THEN OrderResponds("create", 500, 0) /\ UNCHANGED orders
        ELSE /\ Len(orders) < MaxOrders
             /\ orders' = Append(orders, NewOrder(data))
             /\ OrderResponds("create", 201, Len(orders) + 1)

\* updateOrderStatus without its guard on an unchanged status
UpdateStatusErrorNoSameCheck(order, newStatus) ==
    IF order.status \in {"confirmed", "shipped", "delivered"} /\ newStatus = "cancelled"
    THEN 400
    ELSE IF order.status = "delivered" THEN 400
    ELSE 0

\* updateOrderStatus: the guards on the loaded order; the status code of
\* the error, 0 if the transition is accepted
UpdateStatusError(order, newStatus) ==
    IF order.status \in {"confirmed", "shipped", "delivered"} /\ newStatus = "cancelled"
    THEN 400
    ELSE IF order.status = "delivered" THEN 400
    ELSE IF order.status = newStatus THEN 400
    ELSE 0

\* updateOrderStatus: the assignments to the order
ApplyStatus(order, newStatus) ==
    LET o1 == [order EXCEPT !.status = newStatus]
        o2 == IF newStatus = "cancelled"
              THEN [o1 EXCEPT !.isCancelled = TRUE, !.cancelledAt = TRUE] ELSE o1
        o3 == IF newStatus = "delivered"
              THEN [o2 EXCEPT !.isDelivered = TRUE, !.deliveredAt = TRUE] ELSE o2
    IN IF newStatus = "delivered" /\ order.paymentMethod = "cash"
       THEN [o3 EXCEPT !.isPaid = TRUE, !.paidAt = TRUE, !.paymentStatus = "paid"]
       ELSE o3

\* orderController.updateOrderStatus for the order id o and the body's newStatus
UpdateOrderStatusReq(o, raw) ==
    /\ nReq < MaxOrderRequests
    /\  LET newStatus == LowerStatus(raw) IN
        IF raw = None THEN OrderResponds("status", 400, 0) /\ UNCHANGED orders
        ELSE IF newStatus \notin StatusEnum
             THEN OrderResponds("status", 400, 0) /\ UNCHANGED orders
        ELSE IF o > Len(orders) THEN OrderResponds("status", 404, 0) /\ UNCHANGED orders
        ELSE IF UpdateStatusError(orders[o], newStatus) # 0
             THEN /\ OrderResponds("status", UpdateStatusError(orders[o], newStatus), o)
                  /\ UNCHANGED orders
        ELSE /\ orders' = [orders EXCEPT ![o] = ApplyStatus(@, newStatus)]
             /\ OrderResponds("status", 200, o)

updateOrderStatus == \E o \in OrderIds, raw \in StatusInputs : UpdateOrderStatusReq(o, raw)

\* markOrderAsPaid without its guard on an order already paid
MarkPaidErrorNoPaidCheck(order) ==
    IF order.status = "cancelled" \/ order.isCancelled THEN 400
    ELSE 0

\* markOrderAsPaid: guards and assignments
MarkPaidError(order) ==
    IF order.status = "cancelled" \/ order.isCancelled THEN 400
    ELSE IF order.isPaid THEN 400
    ELSE 0

ApplyPaid(order) ==
    [order EXCEPT !.isPaid = TRUE, !.paidAt = TRUE, !.isDelivered = TRUE,
                  !.status = "delivered", !.paymentStatus = "paid"]

\* orderController.markOrderAsPaid
markOrderAsPaid ==
    /\ nReq < MaxOrderRequests
    /\ \E who \in {a \in Actors : a.user # None}, o \in OrderIds :
        IF who.role # "admin" THEN OrderResponds("paid", 403, 0) /\ UNCHANGED orders
        ELSE IF o > Len(orders) THEN OrderResponds("paid", 404, 0) /\ UNCHANGED orders
        ELSE IF MarkPaidError(orders[o]) # 0
             THEN OrderResponds("paid", MarkPaidError(orders[o]), o) /\ UNCHANGED orders
        ELSE /\ orders' = [orders EXCEPT ![o] = ApplyPaid(@)]
             /\ OrderResponds("paid", 200, o)

\* markOrderAsDelivered: guards and assignments
MarkDeliveredError(order) ==
    IF order.status = "cancelled" \/ order.isCancelled THEN 400
    ELSE IF order.isDelivered THEN 400
    ELSE 0

\* markOrderAsDelivered without the settlement of a cash order
ApplyDeliveredNoSettle(order) ==
    [order EXCEPT !.status = "delivered", !.isDelivered = TRUE, !.deliveredAt = TRUE]

ApplyDelivered(order) ==
    LET o1 == [order EXCEPT !.status = "delivered", !.isDelivered = TRUE,
                            !.deliveredAt = TRUE]
    IN IF order.paymentMethod = "cash" /\ ~order.isPaid
       THEN [o1 EXCEPT !.isPaid = TRUE, !.paidAt = TRUE, !.paymentStatus = "paid"]
       ELSE o1

\* orderController.markOrderAsDelivered
markOrderAsDelivered ==
    /\ nReq < MaxOrderRequests
    /\ \E who \in {a \in Actors : a.user # None}, o \in OrderIds :
        IF who.role # "admin" THEN OrderResponds("delivered", 403, 0) /\ UNCHANGED orders
        ELSE IF o > Len(orders) THEN OrderResponds("delivered", 404, 0) /\ UNCHANGED orders
        ELSE IF MarkDeliveredError(orders[o]) # 0
             THEN OrderResponds("delivered", MarkDeliveredError(orders[o]), o)
                  /\ UNCHANGED orders
        ELSE /\ orders' = [orders EXCEPT ![o] = ApplyDelivered(@)]
             /\ OrderResponds("delivered", 200, o)

\* markOrderAsCancelled without its guard on a delivered order
MarkCancelledErrorNoDelivered(order) ==
    IF order.status = "cancelled" \/ order.isCancelled THEN 400
    ELSE 0

\* markOrderAsCancelled: guards and assignments
MarkCancelledError(order) ==
    IF order.status = "delivered" THEN 400
    ELSE IF order.status = "cancelled" \/ order.isCancelled THEN 400
    ELSE 0

ApplyCancelled(order) ==
    [order EXCEPT !.status = "cancelled", !.isCancelled = TRUE, !.cancelledAt = TRUE]

\* orderController.markOrderAsCancelled
markOrderAsCancelled ==
    /\ nReq < MaxOrderRequests
    /\ \E who \in {a \in Actors : a.user # None}, o \in OrderIds :
        IF who.role # "admin" THEN OrderResponds("cancelled", 403, 0) /\ UNCHANGED orders
        ELSE IF o > Len(orders) THEN OrderResponds("cancelled", 404, 0) /\ UNCHANGED orders
        ELSE IF MarkCancelledError(orders[o]) # 0
             THEN OrderResponds("cancelled", MarkCancelledError(orders[o]), o)
                  /\ UNCHANGED orders
        ELSE /\ orders' = [orders EXCEPT ![o] = ApplyCancelled(@)]
             /\ OrderResponds("cancelled", 200, o)

\* deleteOrder: guards.  orderSchema declares neither isDeleted nor logs, so
\* a loaded order has no such field: order.isDeleted reads undefined and
\* order.logs.push throws a TypeError, which catchAsync answers with 500
DeleteOrderError(order) ==
    IF "isDeleted" \in DOMAIN order /\ order.isDeleted THEN 400
    ELSE IF "logs" \notin DOMAIN order THEN 500
    ELSE 0

ApplyDeleted(order) ==
    [order EXCEPT !.isDeleted = TRUE, !.deletedAt = TRUE,
                  !.logs = Append(@, "Order deleted")]

\* orderController.deleteOrder for the order id o
DeleteOrderReq(o) ==
    /\ nReq < MaxOrderRequests
    /\ IF o > Len(orders) THEN OrderResponds("delete", 404, 0) /\ UNCHANGED orders
       ELSE IF DeleteOrderError(orders[o]) # 0
            THEN OrderResponds("delete", DeleteOrderError(orders[o]), o)
                 /\ UNCHANGED orders
       ELSE /\ orders' = [orders EXCEPT ![o] = ApplyDeleted(@)]
            /\ OrderResponds("delete", 200, o)

deleteOrder == \E o \in OrderIds : DeleteOrderReq(o)

\* cancelMyOrder: Order.findOne(query) with the access filter of the handler
FindMyOrder(who, o) ==
    IF o > Len(orders) THEN 0
    ELSE IF who.role = "admin" THEN o
    ELSE IF who.user # None THEN (IF orders[o].user = who.user THEN o ELSE 0)
    ELSE IF orders[o].guestEmail = Lower(who.guestEmail) /\ orders[o].isGuest THEN o
    ELSE 0

\* cancelMyOrder: guards on the loaded order
CancelMyOrderError(order) ==
    IF order.status = "cancelled" \/ order.isCancelled THEN 400
    ELSE IF order.status = "delivered" \/ order.isDelivered THEN 400
    ELSE IF order.status = "shipped" /\ order.paymentStatus = "paid" THEN 400
    ELSE 0

\* orderController.cancelMyOrder for the requester who and the order id o
CancelMyOrderReq(who, o) ==
    /\ nReq < MaxOrderRequests
    /\  LET found == FindMyOrder(who, o) IN
        IF who.user = None /\ who.guestEmail = None
        THEN OrderResponds("cancelMy", 400, 0) /\ UNCHANGED orders
        ELSE IF found = 0 THEN OrderResponds("cancelMy", 404, 0) /\ UNCHANGED orders
        ELSE IF CancelMyOrderError(orders[o]) # 0
             THEN OrderResponds("cancelMy", CancelMyOrderError(orders[o]), o)
                  /\ UNCHANGED orders
        ELSE /\ orders' = [orders EXCEPT ![o] = ApplyCancelled(@)]
             /\ OrderResponds("cancelMy", 200, o)

cancelMyOrder == \E who \in Actors, o \in OrderIds : CancelMyOrderReq(who, o)

\* orderController.getMyOrderById: Order.findOne(query) with the access
\* filter of the handler; 0 if no order matches
FindOrderForViewer(who, o) ==
    IF o > Len(orders) THEN 0
    ELSE IF who.role = "admin" THEN o
    ELSE IF who.user # None THEN (IF orders[o].user = who.user THEN o ELSE 0)
    ELSE IF orders[o].guestEmail = Lower(who.guestEmail) /\ orders[o].isGuest THEN o
    ELSE 0

\* orderController.getMyOrderById for the requester who and the order id o
GetMyOrderByIdReq(who, o) ==
    /\ nReq < MaxOrderRequests
    /\ UNCHANGED orders
    /\ IF who.user = None /\ who.guestEmail = None
       THEN OrderResponds("getMy", 400, 0)
       ELSE IF FindOrderForViewer(who, o) = 0 THEN OrderResponds("getMy", 404, 0)
       ELSE OrderResponds("getMy", 200, o)

getMyOrderById == \E who \in Actors, o \in OrderIds : GetMyOrderByIdReq(who, o)

\* orderController.trackMyOrder for the requester who and the order id o
\* (the access filter is the one of getMyOrderById)
TrackMyOrderReq(who, o) ==
    /\ nReq < MaxOrderRequests
    /\ UNCHANGED orders
    /\ IF who.user = None /\ who.guestEmail = None
       THEN OrderResponds("track", 400, 0)
       ELSE IF FindOrderForViewer(who, o) = 0 THEN OrderResponds("track", 404, 0)
       ELSE IF orders[o].status = "cancelled" \/ orders[o].isCancelled
            THEN OrderResponds("track", 400, o)
       ELSE OrderResponds("track", 200, o)

trackMyOrder == \E who \in Actors, o \in OrderIds : TrackMyOrderReq(who, o)

\* generateInvoiceForOrder: Order.findOne(query); the query has the user of
\* an authenticated request, else the guestEmail if one is sent, else the
\* order id alone
FindOrderForInvoice(who, o) ==
    IF o > Len(orders) THEN 0
    ELSE IF who.user # None THEN (IF orders[o].user = who.user THEN o ELSE 0)
    ELSE IF who.guestEmail # None
         THEN (IF orders[o].guestEmail = Lower(who.guestEmail) THEN o ELSE 0)
    ELSE o

\* orderController.generateInvoiceForOrder
GenerateInvoiceReq(who, o) ==
    /\ nReq < MaxOrderRequests
    /\ LET found == FindOrderForInvoice(who, o) IN
       IF found = 0 THEN OrderResponds("invoice", 400, 0) /\ UNCHANGED orders
       ELSE IF ~orders[o].isPaid THEN OrderResponds("invoice", 400, o) /\ UNCHANGED orders
       ELSE /\ orders' = [orders EXCEPT ![o].invoiceURL = TRUE]
            /\ OrderResponds("invoice", 200, o)

generateInvoiceForOrder == \E who \in Actors, o \in OrderIds : GenerateInvoiceReq(who, o)

\* rateOrderedProduct: Order.findOne({_id, isDelivered: true, ...}); an
\* admin is filtered like a guest, by the guestEmail of the query string
FindOrderToRate(who, o) ==
    IF o > Len(orders) \/ ~orders[o].isDelivered THEN 0
    ELSE IF who.user # None /\ who.role # "admin"
         THEN (IF orders[o].user = who.user THEN o ELSE 0)
    ELSE IF orders[o].guestEmail = Lower(who.guestEmail) THEN o
    ELSE 0

\* orderController.rateOrderedProduct for a well-formed rating of a product
\* of the order.  The Review collection is outside the model: the handler
\* answers 400 if the product was reviewed before and 201 otherwise.
RateOrderedProductReq(who, o) ==
    /\ nReq < MaxOrderRequests
    /\ UNCHANGED orders
    /\ IF (who.user = None \/ who.role = "admin") /\ who.guestEmail = None
       THEN OrderResponds("rate", 401, 0)
       ELSE IF FindOrderToRate(who, o) = 0 THEN OrderResponds("rate", 404, 0)
       ELSE \E code \in {201, 400} : OrderResponds("rate", code, o)

rateOrderedProduct == \E who \in Actors, o \in OrderIds : RateOrderedProductReq(who, o)

\* ------------------------------------------------------------------------
\* Specifications
\* ------------------------------------------------------------------------
\* The cart: requests handled one after the other
Next ==
    \/ AddItem
    \/ UpdateItemQuantity
    \/ RemoveItem
    \/ ClearCart
    \/ CreateOrderFromCart
    \/ GetCart

Spec == Init /\ [][Next]_vars

\* The cart: requests run concurrently and interleave at their awaits
NextConc ==
    \E r \in Slots :
        \/ StartAdd(r)
        \/ CreateCart(r)
        \/ AddStep(r)
        \/ StartUpdate(r)
        \/ UpdateStep(r)
        \/ StartRemove(r)
        \/ RemoveStep(r)
        \/ ClearCartConc(r)
        \/ StartConvert(r)
        \/ ConvertStep(r)

SpecConc == Init /\ [][NextConc]_vars

\* The order life cycle.  It starts where one registered user and one guest
\* have each put a product into their cart (the state after two add-item
\* requests), so that orders are created both directly and from a cart.
ReadyCart(user, guestEmail) ==
    WithTotals([NewCart(user, guestEmail) EXCEPT
        !.items = << CastItem(BuildCartItems("p1", <<>>, 1)[1]) >>, !.v = 1,
        !.added = 1])

InitOrders ==
    /\ carts = << ReadyCart("u1", None), ReadyCart(None, "a@b.com") >>
    /\ orders = <<>>
    /\ reqs = [r \in Slots |-> IdleReq]
    /\ resp = NoResp
    /\ nReq = 0
    /\ themes = <<>>

NextOrders ==
    \/ CreateOrderFromCart
    \/ createOrder
    \/ updateOrderStatus
    \/ markOrderAsPaid
    \/ markOrderAsDelivered
    \/ markOrderAsCancelled
    \/ cancelMyOrder
    \/ getMyOrderById
    \/ trackMyOrder
    \/ generateInvoiceForOrder
    \/ rateOrderedProduct
    \/ deleteOrder

SpecOrders == InitOrders /\ [][NextOrders]_vars

\* Add-item requests racing on a cart.  It starts where user u1 has put one
\* product into their cart (the state after one add-item request).
InitRace ==
    /\ carts = << ReadyCart("u1", None) >>
    /\ orders = <<>>
    /\ reqs = [r \in Slots |-> IdleReq]
    /\ resp = NoResp
    /\ nReq = 0
    /\ themes = <<>>

\* an add-item request arrives
StartAddRace(r) ==
    /\ reqs[r].pc = "idle"
    /\ nReq < MaxRaceRequests
    /\ nReq' = nReq + 1
    /\ \E req \in AddRequests : Take(r, req)

NextRace ==
    \E r \in Slots :
        \/ StartAddRace(r)
        \/ CreateCart(r)
        \/ AddStep(r)

SpecRace == InitRace /\ [][NextRace]_vars

\* ------------------------------------------------------------------------
\* Themes.  Theme.create runs the pre('save') hook and then the insert;
\* setActiveTheme is three awaits on the store; updateTheme is one
\* findByIdAndUpdate.  Each await is one step of a request in a slot.
\* ------------------------------------------------------------------------
Stores == {"s1", "s2"}

\* the fields of a theme document the handlers read and write
NewTheme(storeId, isActive) == [storeId |-> storeId, isActive |-> isActive]

\* Theme.updateMany({ storeId, _id: { $ne: id } }, { $set: { isActive: false } })
\* (id = 0: no theme excluded)
DeactivateStore(T, storeId, id) ==
    [k \in 1..Len(T) |->
        IF T[k].storeId = storeId /\ k # id THEN [T[k] EXCEPT !.isActive = FALSE]
        ELSE T[k]]

ThemeResponds(kind, code, id) ==
    /\ resp' = [kind |-> kind, code |-> code, id |-> id]
    /\ UNCHANGED <<carts, orders>>

\* themes stored or about to be inserted
ThemesInFlight == Cardinality({r \in Slots : reqs[r].pc = "themeInsert"})

\* themeController.createTheme: validation and the pre('save') hook
CreateThemeStart(r) ==
    /\ reqs[r].pc = "idle"
    /\ nReq < MaxThemeRequests
    /\ Len(themes) + ThemesInFlight < MaxThemes
    /\ nReq' = nReq + 1
    /\ \E storeId \in Stores \cup {None}, isActive \in BOOLEAN :
        IF storeId = None
        THEN ThemeResponds("createTheme", 500, 0) /\ UNCHANGED <<themes, reqs>>
        ELSE IF isActive
        THEN /\ themes' = DeactivateStore(themes, storeId, 0)
             /\ reqs' = [reqs EXCEPT ![r] =
                           [IdleReq EXCEPT !.kind = "createTheme", !.pc = "themeInsert",
                                           !.doc = NewTheme(storeId, TRUE)]]
             /\ UNCHANGED <<carts, orders, resp>>
        ELSE /\ themes' = Append(themes, NewTheme(storeId, FALSE))
             /\ ThemeResponds("createTheme", 201, Len(themes) + 1)
             /\ UNCHANGED reqs

\* themeController.createTheme: the insert after the hook
CreateThemeInsert(r) ==
    /\ reqs[r].pc = "themeInsert"
    /\ themes' = Append(themes, reqs[r].doc)
    /\ reqs' = [reqs EXCEPT ![r] = IdleReq]
    /\ ThemeResponds("createTheme", 201, Len(themes) + 1)
    /\ UNCHANGED nReq

\* a field of req.body of updateTheme: None when the body does not name it
UpdateOf(theme, storeId, isActive) ==
    [storeId |-> IF storeId = None THEN theme.storeId ELSE storeId,
     isActive |-> IF isActive = None THEN theme.isActive ELSE (isActive = "true")]

\* themeController.updateTheme: Theme.findByIdAndUpdate(id, req.body)
updateTheme ==
    /\ nReq < MaxThemeRequests
    /\ nReq' = nReq + 1
    /\ UNCHANGED reqs
    /\ \E id \in 1..(Len(themes) + 1), storeId \in Stores \cup {None},
          isActive \in {"true", "false", None} :
        IF id > Len(themes)
        THEN ThemeResponds("updateTheme", 404, 0) /\ UNCHANGED themes
        ELSE /\ themes' = [themes EXCEPT ![id] = UpdateOf(@, storeId, isActive)]
             /\ ThemeResponds("updateTheme", 200, id)

\* themeController.setActiveTheme: Theme.findById(id)
SetActiveStart(r) ==
    /\ reqs[r].pc = "idle"
    /\ nReq < MaxThemeRequests
    /\ nReq' = nReq + 1
    /\ UNCHANGED themes
    /\ \E id \in 1..(Len(themes) + 1) :
        IF id > Len(themes)
        THEN ThemeResponds("setActive", 404, 0) /\ UNCHANGED reqs
        ELSE /\ reqs' = [reqs EXCEPT ![r] =
                           [IdleReq EXCEPT !.kind = "setActive",
                                           !.pc = "themeDeactivate", !.cid = id,
                                           !.doc = themes[id]]]
             /\ UNCHANGED <<carts, orders, resp>>

\* themeController.setActiveTheme: Theme.updateMany({ storeId: theme.storeId }, ...)
SetActiveDeactivate(r) ==
    /\ reqs[r].pc = "themeDeactivate"
    /\ themes' = DeactivateStore(themes, reqs[r].doc.storeId, 0)
    /\ reqs' = [reqs EXCEPT ![r].pc = "themeActivate"]
    /\ UNCHANGED <<carts, orders, resp, nReq>>

\* themeController.setActiveTheme: Theme.findByIdAndUpdate(id, { isActive: true })
SetActiveActivate(r) ==
    /\ reqs[r].pc = "themeActivate"
    /\ themes' = [themes EXCEPT ![reqs[r].cid].isActive = TRUE]
    /\ reqs' = [reqs EXCEPT ![r] = IdleReq]
    /\ ThemeResponds("setActive", 200, reqs[r].cid)
    /\ UNCHANGED nReq

NextThemes ==
    \/ updateTheme
    \/ \E r \in Slots :
        \/ CreateThemeStart(r)
        \/ CreateThemeInsert(r)
        \/ SetActiveStart(r)
        \/ SetActiveDeactivate(r)
        \/ SetActiveActivate(r)

SpecThemes == Init /\ [][NextThemes]_vars

\* ------------------------------------------------------------------------
\* Properties
\* ------------------------------------------------------------------------

\* C1: after any sequence of add-item, remove-item and update-quantity
\* requests, every stored cart has subtotal = the sum of price x quantity
\* over its lines and totalAmount = subtotal + shippingCost, both rounded to
\* 2 decimals.
C1_TotalsMatchLines ==
    \A i \in 1..Len(carts) :
        /\ carts[i].subtotal = Round2(SumLines(carts[i].items))
        /\ carts[i].totalAmount = Round2(carts[i].subtotal + carts[i].shippingCost)

\* a quantity update has succeeded on a cart of two lines whose sum needed rounding
C1_Witness ==
    /\ resp.kind = "update" /\ resp.code = 200
    /\ Len(carts[resp.id].items) >= 2
    /\ carts[resp.id].subtotal # SumLines(carts[resp.id].items)

\* the active cart a convert-cart request finds, 0 if none
CartOfRequest(req) == FindActiveCart(carts, req.user, req.guestEmail)

C2_AtMostOneOrderPerCart ==
    \A a, b \in 1..Len(orders) :
        (a # b /\ orders[a].cart # 0) => orders[a].cart # orders[b].cart

\* C3: convertToOrder called on a cart that has already been converted is
\* answered 400, creates no order and leaves the cart as it is.
C3_SecondConvertRejected ==
    [][\A r \in Slots :
          (/\ reqs[r].pc = "convert"
           /\ carts[reqs[r].cid].isConverted
           /\ ConvertStep(r))
          => /\ resp' = [kind |-> "convert", code |-> 400, id |-> reqs[r].cid]
             /\ orders' = orders
             /\ carts' = carts]_vars

\* C5: once the isConverted flag of a stored cart is true, no request, in
\* any interleaving with the conversion, changes the cart's items, subtotal
\* or totalAmount.
C5_ConvertedCartImmutable ==
    [][\A i \in 1..Len(carts) :
          carts[i].isConverted
          => /\ carts'[i].items = carts[i].items
             /\ carts'[i].subtotal = carts[i].subtotal
             /\ carts'[i].totalAmount = carts[i].totalAmount]_vars

\* the line of a cart that has the product and the variant selection of an
\* item to add, 0 if there is none
SameLine(items, itemData) ==
    FirstIndex({i \in 1..Len(items) :
        /\ items[i].product = itemData.product
        /\ items[i].variant = CastVariant(itemData.variant)})

\* the items of the cart an add-item request of one item goes to
ItemsBefore(req) ==
    IF FindActiveCart(carts, req.user, req.guestEmail) = 0 THEN <<>>
    ELSE carts[FindActiveCart(carts, req.user, req.guestEmail)].items

\* C6: a successful addItem for a product and variant selection that has a
\* line in the cart adds the quantity to that line and leaves the number
\* of lines unchanged; it appends exactly one line only when no line has
\* the same product and the same variant.
C6_AddMergesSameLine ==
    [][\A req \in {a \in AddRequests : Len(a.variant) <= 1} :
          (resp'.kind = "add" /\ resp'.code = 200 /\ Handle(req))
          => LET old == ItemsBefore(req)
                 new == carts'[resp'.id].items
                 itemData == BuildCartItems(req.product, req.variant, req.quantity)[1]
                 i == SameLine(old, itemData)
             IN IF i # 0
                THEN /\ Len(new) = Len(old)
                     /\ new[i].quantity = old[i].quantity + req.quantity
                ELSE Len(new) = Len(old) + 1]_vars

\* C7: once the status of an order is delivered, no operation changes its
\* status again.
C7_DeliveredIsFinal ==
    [][\A o \in 1..Len(orders) :
          orders[o].status = "delivered" => orders'[o].status = "delivered"]_vars

\* markOrderAsCancelled has been refused on a delivered order
C7_Witness ==
    /\ resp.kind = "cancelled" /\ resp.code = 400 /\ resp.id # 0
    /\ orders[resp.id].status = "delivered"

\* the transitions the status state machine forbids
ForbiddenTransition(current, target) ==
    \/ current = "delivered"
    \/ (target = "cancelled" /\ current \in {"confirmed", "shipped", "delivered"})
    \/ target = current

\* C8: updateOrderStatus fails with an error and leaves the order unchanged
\* whenever the current status is delivered, or the target is cancelled and
\* the current status is confirmed, shipped or delivered, or the target
\* equals the current status.
C8_ForbiddenTransitionsRejected ==
    [][\A o \in 1..Len(orders), raw \in StatusInputs :
          (/\ ForbiddenTransition(orders[o].status, LowerStatus(raw))
           /\ UpdateOrderStatusReq(o, raw))
          => (resp'.code >= 400 /\ orders' = orders)]_vars

\* updateOrderStatus has been refused on a confirmed or shipped order
C8_Witness ==
    /\ resp.kind = "status" /\ resp.code = 400 /\ resp.id # 0
    /\ orders[resp.id].status \in {"confirmed", "shipped"}

\* C9: once the status of an order is cancelled, no operation changes its
\* status again.
C9_CancelledIsFinal ==
    [][\A o \in 1..Len(orders) :
          orders[o].status = "cancelled" => orders'[o].status = "cancelled"]_vars

\* C10: every order paid in cash whose status is delivered has isPaid = true
\* and paymentStatus = paid, whichever operation delivered it.
C10_DeliveredCashIsPaid ==
    \A o \in 1..Len(orders) :
        (orders[o].paymentMethod = "cash" /\ orders[o].status = "delivered")
        => (orders[o].isPaid /\ orders[o].paymentStatus = "paid")

\* markOrderAsDelivered has delivered a cash order
C10_Witness ==
    /\ resp.kind = "delivered" /\ resp.code = 200
    /\ orders[resp.id].paymentMethod = "cash"
    /\ orders[resp.id].status = "delivered"

\* the requester of a getMyOrderById is a guest naming the e-mail the order
\* was created with, compared in lower case
GuestEmailMatches(who, order) ==
    /\ who.user = None
    /\ who.guestEmail # None
    /\ Lower(who.guestEmail) = Lower(order.guestEmail)

\* C11: getMyOrderById returns a guest order to a requester who is not an
\* admin exactly when the request is unauthenticated and names a guestEmail
\* whose lower-cased form equals the lower-cased e-mail the order was
\* created with; another guest e-mail or an authenticated user gets 404.
C11_GuestOrderVisibleToItsGuest ==
    [][\A who \in {a \in Actors : a.role # "admin"}, o \in 1..Len(orders) :
          (orders[o].isGuest /\ GetMyOrderByIdReq(who, o))
          => /\ (resp'.code = 200) <=> GuestEmailMatches(who, orders[o])
             /\ (who.user # None \/ (who.guestEmail # None
                                      /\ ~GuestEmailMatches(who, orders[o])))
                => resp'.code = 404]_vars

\* C12 (cart handlers): for an authenticated requester, getCart,
\* updateItemQuantity and removeItem select only a cart whose user is the
\* requester, whatever guestEmail the request carries as well.
C12_AuthenticatedSelectsOwnCart ==
    [][\A req \in {q \in GetCartRequests \cup UpdateRequests \cup RemoveRequests :
                      q.user # None} :
          (Handle(req) /\ resp'.id # 0) => carts[resp'.id].user = req.user]_vars

\* a request with neither an authenticated identity nor a guest e-mail
Anonymous == [user |-> None, role |-> None, guestEmail |-> None]

\* C13 (order handlers): a per-order operation invoked with neither an
\* authenticated identity nor a guest e-mail is answered with a 4xx status
\* other than 401, and reads or changes no order document.
C13_AnonymousRejected ==
    [][\A o \in OrderIds :
          (\/ GetMyOrderByIdReq(Anonymous, o)
           \/ CancelMyOrderReq(Anonymous, o)
           \/ TrackMyOrderReq(Anonymous, o)
           \/ GenerateInvoiceReq(Anonymous, o)
           \/ RateOrderedProductReq(Anonymous, o))
          => /\ resp'.code \in 400..499
             /\ resp'.code # 401
             /\ resp'.id = 0
             /\ orders' = orders]_vars

\* C14: cancelMyOrder of a requester who is not an admin never cancels an
\* order that is shipped and on which payment has been recorded (isPaid):
\* the request is refused and the order keeps its status, however the order
\* was created.
C14_ShippedPaidNotCancelledByCustomer ==
    [][\A who \in {a \in Actors : a.role # "admin"}, o \in 1..Len(orders) :
          (/\ orders[o].status = "shipped"
           /\ orders[o].isPaid
           /\ CancelMyOrderReq(who, o))
          => (resp'.code >= 400 /\ orders'[o].status = "shipped")]_vars

\* the position of a status along processing -> confirmed -> shipped -> delivered
Rank(st) ==
    CASE st = "processing" -> 1
      [] st = "confirmed"  -> 2
      [] st = "shipped"    -> 3
      [] st = "delivered"  -> 4
      [] OTHER             -> 0

\* C15: the status of an order never moves backwards along processing ->
\* confirmed -> shipped -> delivered: no step lowers the rank of the status
\* of an order that is not cancelled before or after the step.
C15_StatusNeverMovesBack ==
    [][\A o \in 1..Len(orders) :
          (orders[o].status # "cancelled" /\ orders'[o].status # "cancelled")
          => Rank(orders'[o].status) >= Rank(orders[o].status)]_vars

\* a convert-cart request that names an owner, an address and a payment
\* method, for an active cart with lines
Convertible(req) ==
    /\ req.user # None \/ req.guestEmail # None
    /\ req.hasAddress
    /\ req.paymentMethod # None
    /\ CartOfRequest(req) # 0
    /\ carts[CartOfRequest(req)].items # <<>>

\* C16: convertToOrder creates an order; with payment method cash the order
\* is unpaid (isPaid false, no paidAt) with status pending, with any other
\* payment method it is paid (isPaid true, paidAt set) with status
\* processing.
C16_ConvertedOrderPaymentState ==
    [][\A req \in ConvertRequests :
          (Convertible(req) /\ Handle(req))
          => /\ resp'.code = 201
             /\ Len(orders') = Len(orders) + 1
             /\ LET order == orders'[Len(orders')] IN
                IF req.paymentMethod = "cash"
                THEN ~order.isPaid /\ ~order.paidAt /\ order.status = "pending"
                ELSE order.isPaid /\ order.paidAt /\ order.status = "processing"]_vars

\* C17: the status of every stored order is one of processing, confirmed,
\* shipped, delivered, cancelled, in lower case, for orders created
\* directly, created from a cart or changed by a status operation.
C17_StatusInEnum ==
    \A o \in 1..Len(orders) : orders[o].status \in StatusEnum

\* updateOrderStatus has changed the status of an order created from a cart
C17_Witness ==
    /\ resp.kind = "status" /\ resp.code = 200
    /\ orders[resp.id].cart # 0
    /\ orders[resp.id].status = "delivered"

\* C18: every order, created directly or from a cart, has exactly one owner
\* mode: a user reference with isGuest false, or isGuest true with a
\* guestEmail and no user reference.
C18_OneOwnerMode ==
    \A o \in 1..Len(orders) :
        \/ (orders[o].user # None /\ ~orders[o].isGuest)
        \/ (orders[o].isGuest /\ orders[o].guestEmail # None /\ orders[o].user = None)

\* a guest's cart has been converted and a user has ordered directly
C18_Witness ==
    \E a, b \in 1..Len(orders) :
        /\ orders[a].isGuest /\ orders[a].cart # 0
        /\ orders[b].user # None /\ orders[b].cart = 0

\* the active cart a remove-item request finds, 0 if none
CartOfRemove(req) == FindCartByOr(carts, req.user, req.guestEmail)

\* C19: removeItem with an itemId that matches no line of the cart is
\* answered 404 and leaves the items and totals of the cart unchanged.
C19_RemoveUnknownItemNotFound ==
    [][\A req \in RemoveRequests :
          (/\ CartOfRemove(req) # 0
           /\ FindLine(carts[CartOfRemove(req)].items, req.target) = 0
           /\ Handle(req))
          => (resp'.code = 404 /\ carts' = carts)]_vars

\* C20: whenever convertToOrder creates an order, the cart passed
\* canConvertToOrder: it was not converted, had lines, had a payment method
\* selected on the cart, and every line had a product, a quantity and a
\* price other than zero.
C20_ConvertImpliesCanConvert ==
    [][\A req \in ConvertRequests :
          (Handle(req) /\ Len(orders') > Len(orders))
          => canConvertToOrder(carts[resp'.id])]_vars

\* the line an add-item request at its last addItem call merges into, 0 if
\* it appends a line
MergeLine(r) ==
    IF reqs[r].pc = "add" /\ Len(reqs[r].left) = 1
    THEN ExistingItemIndex(reqs[r].doc.items, Head(reqs[r].left))
    ELSE 0

\* request r is about to save a merged quantity computed from a copy that
\* is out of date: since it loaded the cart, the stored quantity of the line
\* has grown (and the version of the cart has not)
StaleMerge(r) ==
    /\ MergeLine(r) # 0
    /\ carts[reqs[r].cid].v = reqs[r].doc.v
    /\ Len(carts[reqs[r].cid].items) >= MergeLine(r)
    /\ carts[reqs[r].cid].items[MergeLine(r)].quantity
         > reqs[r].doc.items[MergeLine(r)].quantity
    /\ reqs[r].doc.items[MergeLine(r)].quantity + reqs[r].quantity <= MaxQuantity

\* C21: two concurrent add-item requests on a cart are subject to a lost
\* update: a request that saves a quantity merged into a copy loaded before
\* the other request saved is answered 200 and overwrites the stored
\* quantity with its own, so that the other addition is lost.
C21_StaleAddOverwrites ==
    [][\A r \in Slots :
          (StaleMerge(r) /\ AddStep(r))
          => /\ resp'.code = 200
             /\ carts'[reqs[r].cid].items[MergeLine(r)].quantity
                  = reqs[r].doc.items[MergeLine(r)].quantity + reqs[r].quantity
             /\ carts'[reqs[r].cid].items[MergeLine(r)].quantity
                  < carts[reqs[r].cid].items[MergeLine(r)].quantity
                      + reqs[r].quantity]_vars

\* add-item requests of quantity 1 for the same product have been answered
\* 200 three times and the cart holds one line of quantity 2
C21_Witness ==
    \E c \in 1..Len(carts) :
        /\ carts[c].added = 3
        /\ Len(carts[c].items) = 1
        /\ carts[c].items[1].variant = <<>>
        /\ carts[c].items[1].quantity = 2
        /\ \A r \in Slots : reqs[r].pc = "idle"
        /\ resp.kind = "add" /\ resp.code = 200

\* the order items are the cart lines, one for one and in the same order,
\* with the same product, name, quantity and price
SameLines(orderItems, items) ==
    /\ Len(orderItems) = Len(items)
    /\ \A i \in 1..Len(items) :
          /\ orderItems[i].product = items[i].product
          /\ orderItems[i].name = items[i].name
          /\ orderItems[i].quantity = items[i].quantity
          /\ orderItems[i].price = items[i].price

\* C22 (as stated): the order created by a successful convertToOrder has one
\* order item per cart line, in the same order, with the same product, name,
\* quantity and price, and its totalAmount equals the sum of price x
\* quantity over those items plus the shippingCost of the cart.
C22_OrderSnapshotExactTotal ==
    [][\A req \in ConvertRequests :
          (Handle(req) /\ resp'.code = 201)
          => LET cart == carts[resp'.id]
                 order == orders'[Len(orders')]
             IN /\ SameLines(order.orderItems, cart.items)
                /\ order.totalAmount
                     = SumLines(order.orderItems) + cart.shippingCost]_vars

\* C22 (amended): the same, with the totalAmount equal to the sum of price x
\* quantity over the order items rounded to 2 decimals, plus the
\* shippingCost of the cart, rounded to 2 decimals.
C22_OrderSnapshotRoundedTotal ==
    [][\A req \in ConvertRequests :
          (Handle(req) /\ resp'.code = 201)
          => LET cart == carts[resp'.id]
                 order == orders'[Len(orders')]
             IN /\ SameLines(order.orderItems, cart.items)
                /\ order.totalAmount
                     = Round2(Round2(SumLines(order.orderItems))
                              + cart.shippingCost)]_vars

\* a cart of two lines whose sum needed rounding has been converted
C22_Witness ==
    /\ resp.kind = "convert" /\ resp.code = 201
    /\ \E o \in 1..Len(orders) :
          /\ orders[o].cart = resp.id
          /\ Len(orders[o].orderItems) >= 2
          /\ orders[o].totalAmount # SumLines(orders[o].orderItems)

\* C23: markOrderAsPaid by an admin on an existing order fails and leaves
\* the order unchanged when the order is cancelled or already paid;
\* otherwise it succeeds and the order has isPaid = true, paymentStatus =
\* paid, isDelivered = true and status = delivered.
C23_MarkPaidGuardsAndEffect ==
    [][(markOrderAsPaid /\ resp'.id # 0)
       => LET o == resp'.id IN
          IF \/ orders[o].status = "cancelled" \/ orders[o].isCancelled
             \/ orders[o].isPaid
          THEN resp'.code = 400 /\ orders' = orders
          ELSE /\ resp'.code = 200
               /\ orders'[o].isPaid
               /\ orders'[o].paymentStatus = "paid"
               /\ orders'[o].isDelivered
               /\ orders'[o].status = "delivered"
               /\ \A k \in 1..Len(orders) : k # o => orders'[k] = orders[k]]_vars

\* an admin has marked an unpaid cash order as paid
C23_Witness ==
    /\ resp.kind = "paid" /\ resp.code = 200
    /\ orders[resp.id].paymentMethod = "cash"
    /\ orders[resp.id].isPaid /\ orders[resp.id].paymentStatus = "paid"
    /\ orders[resp.id].isDelivered /\ orders[resp.id].status = "delivered"

\* C24: every order whose status is delivered has isDelivered = true and
\* deliveredAt set, whichever operation brought it to delivered.
C24_DeliveredHasTimestamp ==
    \A o \in 1..Len(orders) :
        orders[o].status = "delivered"
        => orders[o].isDelivered /\ orders[o].deliveredAt

\* an add-item request whose line has price zero: calculateTotals runs on a
\* cart that contains it
AddsZeroPriceLine(req) ==
    /\ req.product \in Products
    /\ req.user # None \/ req.guestEmail # None
    /\ \A k \in 1..Len(req.variant) :
          ProductVariant(req.product, req.variant[k]) # NoVariant
    /\ HasInvalidLine(BuildCartItems(req.product, req.variant, req.quantity))

\* C25: an add-item request that makes calculateTotals run on a cart with a
\* line of price zero is answered with a 400-class error and leaves the
\* stored carts unchanged.
C25_InvalidLineRejectedAs400 ==
    [][\A req \in AddRequests :
          (AddsZeroPriceLine(req) /\ Handle(req))
          => /\ resp'.code \in 400..499
             /\ carts' = carts]_vars

\* the order carries the soft-delete flag
IsDeleted(order) == "isDeleted" \in DOMAIN order /\ order.isDeleted

\* C26: deleteOrder on an existing order never removes it: on an order not
\* yet deleted it succeeds and the order is still there with isDeleted =
\* true and one more log entry; on a deleted order it fails with 400
\* 'already deleted' and leaves the order unchanged.
C26_DeleteIsSoftAndOnce ==
    [][\A o \in 1..Len(orders) :
          DeleteOrderReq(o)
          => /\ Len(orders') = Len(orders)
             /\ IF IsDeleted(orders[o])
                THEN resp'.code = 400 /\ orders' = orders
                ELSE /\ resp'.code = 200
                     /\ IsDeleted(orders'[o])
                     /\ Len(orders'[o].logs) = Len(orders[o].logs) + 1]_vars

\* two stored carts of the same owner: the same user, or the same guest
\* email on carts without a user
SameOwner(a, b) ==
    \/ a.user # None /\ a.user = b.user
    \/ a.user = None /\ b.user = None /\ a.guestEmail # None
       /\ a.guestEmail = b.guestEmail

\* C27: at any time, under any interleaving of add-item requests, no owner
\* has two non-converted carts.
C27_OneActiveCartPerOwner ==
    \A a, b \in 1..Len(carts) :
        (a # b /\ ~carts[a].isConverted /\ ~carts[b].isConverted)
        => ~SameOwner(carts[a], carts[b])

\* C28: for every order, after any sequence of status operations,
\* isCancelled is true exactly when the status is cancelled.
C28_CancelledFlagMatchesStatus ==
    \A o \in 1..Len(orders) :
        orders[o].isCancelled <=> (orders[o].status = "cancelled")

\* C29: for every order, from its creation through any sequence of status
\* operations, isPaid is true exactly when paymentStatus is paid.
C29_PaidFlagMatchesPaymentStatus ==
    \A o \in 1..Len(orders) :
        orders[o].isPaid <=> (orders[o].paymentStatus = "paid")

\* C30: at any time, under any sequence or interleaving of createTheme,
\* updateTheme and setActiveTheme requests, no store has two themes with
\* isActive = true.
C30_OneActiveThemePerStore ==
    \A a, b \in 1..Len(themes) :
        (a # b /\ themes[a].isActive /\ themes[b].isActive)
        => themes[a].storeId # themes[b].storeId

====
